---- MODULE Spec2Model ----
(***************************************************************************)
(* Model of DS_Project/etl.py: a linear ETL script that loads Redfin       *)
(* housing prices from a CSV file, fetches violent-crime figures for each  *)
(* state from the FBI API, joins and ranks them, draws a chart and         *)
(* persists three tables.                                                  *)
(*                                                                         *)
(* Numbers that are floats in the script are exact rationals [n, d] in     *)
(* lowest terms; text that the script inspects character by character      *)
(* (period and price cells) is a sequence of one-character strings.        *)
(***************************************************************************)
EXTENDS Integers, Sequences, FiniteSets, TLC

VARIABLES pc, fmt, csv, out_dir, files, db, conn, df_redfin, housing_summary,
          idx, requests, response, crime_stats, crime_data, merged, shown, step

vars == <<pc, fmt, csv, out_dir, files, db, conn, df_redfin, housing_summary,
          idx, requests, response, crime_stats, crime_data, merged, shown, step>>

----------------------------------------------------------------------------
(* Bounds of the model *)

\* states of state_abbr_map the fetch loop runs over
NumStates == 3
\* rows of the housing file when the loader is checked on its own
MaxRows == 3
\* rows of the housing file in a run of the whole script
MaxPipeRows == 2
\* offense categories in a rates mapping, and years in a populations mapping
MaxKeys == 2

----------------------------------------------------------------------------
(* Arithmetic on exact non-negative rationals *)

gcd[a \in Nat, b \in Nat] == IF b = 0 THEN a ELSE gcd[b, a % b]

GCD(a, b) == gcd[a, b]

Rat(n, d) == LET g == GCD(n, d) IN [n |-> n \div g, d |-> d \div g]

Int2Rat(k) == [n |-> k, d |-> 1]

RatAdd(a, b) == Rat(a.n * b.d + b.n * a.d, a.d * b.d)

RatMul(a, b) ==
    LET g1 == GCD(a.n, b.d)
        g2 == GCD(b.n, a.d)
    IN  IF a.n = 0 \/ b.n = 0 THEN Int2Rat(0)
        ELSE [n |-> (a.n \div g1) * (b.n \div g2), d |-> (a.d \div g2) * (b.d \div g1)]

\* b is not zero
RatDiv(a, b) == RatMul(a, [n |-> b.d, d |-> b.n])

RatLess(a, b) == a.n * b.d < b.n * a.d

RECURSIVE RatSum(_)
RatSum(s) == IF s = <<>> THEN Int2Rat(0) ELSE RatAdd(Head(s), RatSum(Tail(s)))

RECURSIVE Pow10(_)
Pow10(k) == IF k = 0 THEN 1 ELSE 10 * Pow10(k - 1)

\* Python 3 round(): to the nearest integer, a half to the even neighbour
RoundHalfEven(r) ==
    LET q == r.n \div r.d
        rem == r.n % r.d
    IN  IF 2 * rem < r.d THEN q
        ELSE IF 2 * rem > r.d THEN q + 1
        ELSE IF q % 2 = 0 THEN q ELSE q + 1

\* round(x, k)
RoundTo(r, k) == Rat(RoundHalfEven(RatMul(r, Int2Rat(Pow10(k)))), Pow10(k))

\* a function extended or overwritten at one key
Put(f, k, v) == [x \in DOMAIN f \cup {k} |-> IF x = k THEN v ELSE f[x]]

\* the elements of a set as a sequence, in some order
RECURSIVE SetToSeq(_)
SetToSeq(S) == IF S = {} THEN <<>>
               ELSE LET x == CHOOSE y \in S : TRUE IN <<x>> \o SetToSeq(S \ {x})

\* all sequences over S of length at most k
SeqsUpTo(S, k) == UNION {[1..m -> S] : m \in 0..k}

----------------------------------------------------------------------------
(* Program constants *)

\* the divisor and factor 100_000 of the rate arithmetic
PerHundredThousand == 100000

\* the factor applied to every parsed price
PriceFactor == 1000

\* the rank up to which a point of the chart is labelled
TopLabelled == 3

\* the leading entries of state_abbr_map, in the order of the dict literal
StateNames == <<"Alabama", "Alaska", "Arizona", "Arkansas", "California", "Colorado">>
StateAbbrs == <<"AL", "AK", "AZ", "AR", "CA", "CO">>

state_abbr_map == [i \in 1..NumStates |-> [State |-> StateNames[i], Abbr |-> StateAbbrs[i]]]

MapStates == {state_abbr_map[i].State : i \in 1..NumStates}

----------------------------------------------------------------------------
(* JSON values as the script sees them after r.json() *)

JNull == [t |-> "null"]
JNum(r) == [t |-> "num", v |-> r]
\* a non-empty string
JStr == [t |-> "str"]
\* a dict: m is a function from its keys to JSON values
JObj(m) == [t |-> "obj", m |-> m]
EmptyDict == JObj(<<>>)

\* Python truthiness, as in "if offenses" and "not state_rates"
Truthy(j) ==
    CASE j.t = "null" -> FALSE
      [] j.t = "num"  -> j.v.n # 0
      [] j.t = "str"  -> TRUE
      [] j.t = "obj"  -> DOMAIN j.m # {}

\* d.get(k, default) of a dict d
DictGet(d, k, default) == IF k \in DOMAIN d.m THEN d.m[k] ELSE default

\* the values of a dict, as a sequence
DictValues(d) == LET ks == SetToSeq(DOMAIN d.m) IN [i \in 1..Len(ks) |-> d.m[ks[i]]]

\* isinstance(rate, (int, float))
IsNumber(j) == j.t = "num"

ZeroStats == [Population |-> 0, TotalViolentCrimes |-> 0, CrimeRate |-> Int2Rat(0)]

Raise(e) == [exc |-> e, ret |-> ZeroStats]
Return(v) == [exc |-> "none", ret |-> v]

\* line 37 with the rounded estimate of line 41 in place of the unrounded one
CrimeRateOfRounded(total_crimes_est, avg_population) ==
    RatMul(RatDiv(Int2Rat(RoundHalfEven(total_crimes_est)), avg_population),
           Int2Rat(PerHundredThousand))

\* line 37; avg_population is not zero
CrimeRateOf(total_crimes_est, avg_population) ==
    RatMul(RatDiv(total_crimes_est, avg_population), Int2Rat(PerHundredThousand))

\* lines 34-43: the estimate from a truthy state_rates and populations
Estimate(state_rates, populations) ==
    IF populations.t # "obj" THEN Raise("AttributeError")
    ELSE LET pv == DictValues(populations) IN
    IF \E i \in 1..Len(pv) : ~IsNumber(pv[i]) THEN Raise("TypeError")
    ELSE LET avg_population == RatDiv(RatSum([i \in 1..Len(pv) |-> pv[i].v]), Int2Rat(Len(pv))) IN
    IF state_rates.t # "obj" THEN Raise("AttributeError")
    ELSE LET rv == SelectSeq(DictValues(state_rates), IsNumber)
             total_crimes_est ==
                 RatDiv(RatMul(RatSum([i \in 1..Len(rv) |-> rv[i].v]), avg_population),
                        Int2Rat(PerHundredThousand))
         IN
    IF avg_population.n = 0 THEN Raise("ZeroDivisionError")
    ELSE LET crime_rate == CrimeRateOf(total_crimes_est, avg_population)
         IN  Return([Population |-> RoundHalfEven(avg_population),
                     TotalViolentCrimes |-> RoundHalfEven(total_crimes_est),
                     CrimeRate |-> RoundTo(crime_rate, 2)])

\* lines 18-43: the body of the try block; resp is what the API does with the request
FetchBody(state_name, resp) ==
    IF resp.kind = "network_error" THEN Raise("ConnectionError")
    ELSE IF resp.kind = "http_error" THEN Raise("HTTPError")
    ELSE IF resp.kind = "bad_json" THEN Raise("JSONDecodeError")
    ELSE LET data == resp.data IN
    IF data.t # "obj" THEN Raise("AttributeError")
    ELSE LET offenses == DictGet(data, "offenses", JNull) IN
    IF Truthy(offenses) /\ offenses.t # "obj" THEN Raise("AttributeError")
    ELSE LET rates == IF Truthy(offenses) THEN DictGet(offenses, "rates", JNull) ELSE JNull IN
    IF Truthy(rates) /\ rates.t # "obj" THEN Raise("AttributeError")
    ELSE LET state_rates == IF Truthy(rates) THEN DictGet(rates, state_name, JNull) ELSE JNull
             p1 == DictGet(data, "populations", EmptyDict)
         IN
    IF p1.t # "obj" THEN Raise("AttributeError")
    ELSE LET p2 == DictGet(p1, "population", EmptyDict) IN
    IF p2.t # "obj" THEN Raise("AttributeError")
    ELSE LET populations == DictGet(p2, state_name, JNull) IN
    IF ~Truthy(state_rates) \/ ~Truthy(populations) THEN Return(ZeroStats)
    ELSE Estimate(state_rates, populations)

\* the handler of line 45 narrowed to "except requests.RequestException"
fetch_catching_requests_only(state_name, state_abbr, resp) ==
    LET b == FetchBody(state_name, resp)
    IN  IF b.exc \in {"ConnectionError", "HTTPError", "JSONDecodeError"}
        THEN Return(ZeroStats) ELSE b

\* lines 16-47: every exception of the body becomes the zero default
fetch_crime_data(state_name, state_abbr, resp) ==
    LET b == FetchBody(state_name, resp)
    IN  IF b.exc # "none" THEN Return(ZeroStats) ELSE b

----------------------------------------------------------------------------
(* Housing loader, lines 75-86 *)

Digits == {"0", "1", "2", "3", "4", "5", "6", "7", "8", "9"}

DigitVal(c) ==
    CASE c = "0" -> 0 [] c = "1" -> 1 [] c = "2" -> 2 [] c = "3" -> 3 [] c = "4" -> 4
      [] c = "5" -> 5 [] c = "6" -> 6 [] c = "7" -> 7 [] c = "8" -> 8 [] c = "9" -> 9

\* str.contains of a literal
Contains(s, sub) ==
    \E i \in 1..(Len(s) - Len(sub) + 1) : SubSeq(s, i, i + Len(sub) - 1) = sub

\* line 79 with the pattern "2022" alone
PeriodKept2022Only(period) == Contains(period, <<"2", "0", "2", "2">>)

\* line 79: str.contains("2022|2023")
PeriodKept(period) ==
    \/ Contains(period, <<"2", "0", "2", "2">>)
    \/ Contains(period, <<"2", "0", "2", "3">>)

IsMarker(c) == c \in {"$", "K"}
NotMarker(c) == ~IsMarker(c)

\* line 80: replace("[$K]", "", regex=True)
StripMarkers(s) == SelectSeq(s, NotMarker)

IsDigit(c) == c \in Digits
IsDot(c) == c = "."

RECURSIVE DigitsValue(_)
DigitsValue(s) == IF s = <<>> THEN 0
                  ELSE 10 * DigitsValue(SubSeq(s, 1, Len(s) - 1)) + DigitVal(s[Len(s)])

NaN == [nan |-> TRUE, v |-> Int2Rat(0)]
Number(r) == [nan |-> FALSE, v |-> r]

\* line 81: pd.to_numeric(..., errors='coerce') of one cell: an unsigned decimal
\* literal parses, everything else (the empty cell too) is NaN
to_numeric(s) ==
    LET ds == SelectSeq(s, IsDigit)
        dots == SelectSeq(s, IsDot)
        dotAt == CHOOSE i \in 1..Len(s) : s[i] = "."
        decimals == IF dots = <<>> THEN 0 ELSE Len(s) - dotAt
    IN  IF Len(ds) + Len(dots) # Len(s) \/ Len(dots) > 1 \/ ds = <<>> THEN NaN
        ELSE Number(Rat(DigitsValue(ds), Pow10(decimals)))

\* lines 80-81 for one cell: strip the markers, parse, multiply by 1000
CleanPrice(text) ==
    LET x == to_numeric(StripMarkers(text))
    IN  IF x.nan THEN NaN ELSE Number(RatMul(x.v, Int2Rat(PriceFactor)))

\* lines 78-82: the rows kept, each with its index in the file
CleanRows(rows) ==
    LET kept(i) == PeriodKept(rows[i].Month) /\ ~CleanPrice(rows[i].Price).nan
        RECURSIVE Build(_)
        Build(i) == IF i > Len(rows) THEN <<>>
                    ELSE (IF kept(i)
                          THEN <<[i |-> i, Region |-> rows[i].Region, Month |-> rows[i].Month,
                                  Price |-> CleanPrice(rows[i].Price).v]>>
                          ELSE <<>>) \o Build(i + 1)
    IN  Build(1)

\* the regions of the sample files, in the sorted order groupby puts its groups in
RegionOrder == <<"Alabama", "Alaska", "Puerto Rico">>

\* the Price column of the rows of one region
PricesOf(df, region) ==
    LET sel == SelectSeq(df, LAMBDA r : r.Region = region)
    IN  [i \in 1..Len(sel) |-> sel[i].Price]

\* Series.mean()
Mean(prices) == RatDiv(RatSum(prices), Int2Rat(Len(prices)))

\* lines 85-86: groupby("Region").mean().reset_index()
Summarize(df) ==
    LET groups == SelectSeq(RegionOrder, LAMBDA g : \E i \in 1..Len(df) : df[i].Region = g)
    IN  [k \in 1..Len(groups) |->
            [State |-> groups[k], AvgMedianPrice |-> Mean(PricesOf(df, groups[k]))]]

----------------------------------------------------------------------------
(* Merger and ranker, lines 110-119 *)

\* line 114 with how="left": a row of the left frame without a match is kept, its
\* crime columns empty
RECURSIVE LeftJoin(_, _)
LeftJoin(left, right) ==
    IF left = <<>> THEN <<>>
    ELSE LET l == Head(left)
             m == SelectSeq(right, LAMBDA r : r.State = l.State)
         IN  (IF m = <<>>
              THEN <<[State |-> l.State, AvgMedianPrice |-> l.AvgMedianPrice,
                      Population |-> 0, TotalViolentCrimes |-> 0,
                      CrimeRate |-> Int2Rat(0)]>>
              ELSE [j \in 1..Len(m) |->
                      [State |-> l.State, AvgMedianPrice |-> l.AvgMedianPrice,
                       Population |-> m[j].Population,
                       TotalViolentCrimes |-> m[j].TotalViolentCrimes,
                       CrimeRate |-> m[j].CrimeRate]])
             \o LeftJoin(Tail(left), right)

\* line 114: pd.merge(left, right, on="State", how="inner")
RECURSIVE InnerJoin(_, _)
InnerJoin(left, right) ==
    IF left = <<>> THEN <<>>
    ELSE LET l == Head(left)
             m == SelectSeq(right, LAMBDA r : r.State = l.State)
         IN  [j \in 1..Len(m) |->
                 [State |-> l.State, AvgMedianPrice |-> l.AvgMedianPrice,
                  Population |-> m[j].Population,
                  TotalViolentCrimes |-> m[j].TotalViolentCrimes,
                  CrimeRate |-> m[j].CrimeRate]]
             \o InnerJoin(Tail(left), right)

\* lines 117-118 with rank's default ascending=True
RankAtAscending(values, i) ==
    LET less == Cardinality({j \in 1..Len(values) : RatLess(values[j], values[i])})
        equal == Cardinality({j \in 1..Len(values) : values[j] = values[i]})
    IN  (2 * less + equal + 1) \div 2

\* lines 117-118: Series.rank(ascending=False).astype(int) at position i; rank's
\* default method gives tied values the average of their positions, and astype(int)
\* drops the fraction
RankAt(values, i) ==
    LET greater == Cardinality({j \in 1..Len(values) : RatLess(values[i], values[j])})
        equal == Cardinality({j \in 1..Len(values) : values[j] = values[i]})
    IN  (2 * greater + equal + 1) \div 2

\* line 119: (CrimeRate / AvgMedianPrice).round(6)
CrimesPerDollar(crime_rate, price) ==
    IF price.n = 0
    THEN (IF crime_rate.n = 0 THEN [kind |-> "nan", v |-> Int2Rat(0)]
          ELSE [kind |-> "inf", v |-> Int2Rat(0)])
    ELSE [kind |-> "num", v |-> RoundTo(RatDiv(crime_rate, price), 6)]

\* lines 117-119: the three columns added to the joined frame j
AddRanks(j) ==
    LET rates == [i \in 1..Len(j) |-> j[i].CrimeRate]
        prices == [i \in 1..Len(j) |-> j[i].AvgMedianPrice]
    IN  [i \in 1..Len(j) |->
            [State |-> j[i].State, AvgMedianPrice |-> j[i].AvgMedianPrice,
             Population |-> j[i].Population,
             TotalViolentCrimes |-> j[i].TotalViolentCrimes,
             CrimeRate |-> j[i].CrimeRate,
             CrimeRank |-> RankAt(rates, i),
             PriceRank |-> RankAt(prices, i),
             CrimesPerDollar |-> CrimesPerDollar(j[i].CrimeRate, j[i].AvgMedianPrice)]]

\* lines 127-139: the points of the scatter plot and the states labelled on it
Chart(m) ==
    [points |-> [i \in 1..Len(m) |-> <<m[i].CrimeRate, m[i].AvgMedianPrice>>],
     labels |-> {m[i].State : i \in {k \in 1..Len(m) :
                    m[k].CrimeRank <= TopLabelled \/ m[k].PriceRank <= TopLabelled}}]

----------------------------------------------------------------------------
(* Persistence, lines 55-62 and 143-154 *)

ChartFile == <<"crime_vs_price_scatter", "png">>

\* lines 56-62: the output directory after export_data(df, name, output_format)
export_data(dir, df, name, output_format) ==
    IF output_format = "csv"
    THEN Put(dir, <<name, output_format>>, [format |-> "csv", content |-> df])
    ELSE IF output_format = "json"
    THEN Put(dir, <<name, output_format>>, [format |-> "json", content |-> df])
    ELSE dir

\* the three tables in the order both branches write them
Tables(h, c, m) == << [name |-> "housing_data", df |-> h],
                      [name |-> "crime_data", df |-> c],
                      [name |-> "merged_data", df |-> m] >>

\* to_sql with if_exists="append": the rows go after those of an existing table
to_sql_append(database, name, df) ==
    [database EXCEPT !.tables =
        Put(@, name, IF name \in DOMAIN @ THEN @[name] \o df ELSE df)]

\* DataFrame.to_sql(name, conn, if_exists="replace")
to_sql(database, name, df) == [database EXCEPT !.tables = Put(@, name, df)]

----------------------------------------------------------------------------
(* Inputs *)

Y2021 == <<"2", "0", "2", "1">>
Y2022 == <<"2", "0", "2", "2">>
M2023 == <<"1", "2", "/", "2", "0", "2", "3">>

Row(region, month, price) == [Region |-> region, Month |-> month, Price |-> price]

Unreadable == [readable |-> FALSE, rows |-> <<>>]
File(rows) == [readable |-> TRUE, rows |-> rows]

\* rows of the housing file in a run of the whole script
PipeRows ==
    { Row("Alabama", Y2022, <<"$", "1", "K">>),
      Row("Alabama", Y2021, <<"$", "3", "K">>),
      Row("Alaska", M2023, <<"$", "2", "K">>),
      Row("Puerto Rico", Y2022, <<"$", "2", "K">>) }

PipeFiles == {Unreadable} \cup {File(r) : r \in SeqsUpTo(PipeRows, MaxPipeRows)}

NoResponse == [kind |-> "none", data |-> JNull]
NetworkError == [kind |-> "network_error", data |-> JNull]
HttpError == [kind |-> "http_error", data |-> JNull]
BadJson == [kind |-> "bad_json", data |-> JNull]
Ok(data) == [kind |-> "ok", data |-> data]

\* a well-formed body for one state
Body(state, rates, populations) ==
    JObj(("offenses" :> JObj("rates" :> JObj(state :> rates)))
         @@ ("populations" :> JObj("population" :> JObj(state :> populations))))

\* what the API may do with the request for a state in a run of the whole script
PipeOutcomes(state) ==
    { NetworkError, HttpError, BadJson, Ok(JStr), Ok(EmptyDict),
      Ok(Body(state, JObj("robbery" :> JNum(Int2Rat(2))),
                     JObj("2022" :> JNum(Int2Rat(100000))))) }

\* a previous run's database: a stale merged_data and a table the script does not own
StaleTable == <<[State |-> "stale"]>>
NoDb == [exists |-> FALSE, tables |-> <<>>]
StaleDb == [exists |-> TRUE,
            tables |-> ("merged_data" :> StaleTable) @@ ("other" :> StaleTable)]

Formats == {"csv", "json", "sqlite"}

----------------------------------------------------------------------------
(* The script, lines 65-154 *)

Init ==
    /\ pc = "start"
    /\ fmt \in Formats
    /\ csv \in PipeFiles
    /\ \E prior \in BOOLEAN :
          /\ out_dir = prior
          /\ db = IF prior THEN StaleDb ELSE NoDb
    /\ files = <<>>
    /\ conn = "none"
    /\ df_redfin = <<>>
    /\ housing_summary = <<>>
    /\ idx = 0
    /\ requests = <<>>
    /\ response = NoResponse
    /\ crime_stats = ZeroStats
    /\ crime_data = <<>>
    /\ merged = <<>>
    /\ shown = FALSE
    /\ step = 0

\* line 72
MakeDirs ==
    /\ pc = "start"
    /\ out_dir' = TRUE
    /\ pc' = "load"
    /\ UNCHANGED <<fmt, csv, files, db, conn, df_redfin, housing_summary, idx, requests,
                   response, crime_stats, crime_data, merged, shown, step>>

\* lines 75-87 with the read wrapped in a handler that goes on with an empty frame
LoadHousingSwallowingError ==
    /\ pc = "load"
    /\ \E df \in {CleanRows(csv.rows)} :
           /\ df_redfin' = df
           /\ housing_summary' = Summarize(df)
           /\ pc' = "fetch"
    /\ UNCHANGED <<fmt, csv, out_dir, files, db, conn, idx, requests, response,
                   crime_stats, crime_data, merged, shown, step>>

\* lines 75-87; read_csv raises on a file it cannot read and the script ends;
\* df is the cleaned frame, computed once
LoadHousing ==
    /\ pc = "load"
    /\ IF ~csv.readable
       THEN /\ pc' = "aborted"
            /\ UNCHANGED <<df_redfin, housing_summary>>
       ELSE \E df \in {CleanRows(csv.rows)} :
                /\ df_redfin' = df
                /\ housing_summary' = Summarize(df)
                /\ pc' = "fetch"
    /\ UNCHANGED <<fmt, csv, out_dir, files, db, conn, idx, requests, response,
                   crime_stats, crime_data, merged, shown, step>>

\* lines 105-108: one iteration of the loop over state_abbr_map; the response is
\* local to the call and gone when it returns
FetchState ==
    /\ pc = "fetch"
    /\ idx < NumStates
    /\ LET e == state_abbr_map[idx + 1]
       IN  \E o \in PipeOutcomes(e.State) :
             LET r == fetch_crime_data(e.State, e.Abbr, o)
             IN  /\ requests' = Append(requests, e.Abbr)
                 /\ IF r.exc # "none"
                    THEN /\ pc' = "aborted"
                         /\ UNCHANGED <<crime_stats, crime_data, idx>>
                    ELSE /\ crime_stats' = r.ret
                         /\ crime_data' = Append(crime_data,
                                [State |-> e.State, Population |-> r.ret.Population,
                                 TotalViolentCrimes |-> r.ret.TotalViolentCrimes,
                                 CrimeRate |-> r.ret.CrimeRate])
                         /\ idx' = idx + 1
                         /\ pc' = IF idx + 1 = NumStates THEN "merge" ELSE "fetch"
    /\ UNCHANGED <<fmt, csv, out_dir, files, db, conn, df_redfin, housing_summary,
                   response, merged, shown, step>>

\* lines 110-124; j is the joined frame, computed once; the correlation is only
\* printed
Merge ==
    /\ pc = "merge"
    /\ \E j \in {InnerJoin(housing_summary, crime_data)} : merged' = AddRanks(j)
    /\ pc' = "savefig"
    /\ UNCHANGED <<fmt, csv, out_dir, files, db, conn, df_redfin, housing_summary, idx,
                   requests, response, crime_stats, crime_data, shown, step>>

\* lines 127-140
SaveChart ==
    /\ pc = "savefig"
    /\ files' = Put(files, ChartFile, [format |-> "png", content |-> Chart(merged)])
    /\ pc' = "show"
    /\ UNCHANGED <<fmt, csv, out_dir, db, conn, df_redfin, housing_summary, idx, requests,
                   response, crime_stats, crime_data, merged, shown, step>>

\* line 141
ShowChart ==
    /\ pc = "show"
    /\ shown' = TRUE
    /\ pc' = "persist"
    /\ UNCHANGED <<fmt, csv, out_dir, files, db, conn, df_redfin, housing_summary, idx,
                   requests, response, crime_stats, crime_data, merged, step>>

\* lines 144-145
Connect ==
    /\ pc = "persist"
    /\ fmt = "sqlite"
    /\ conn' = "open"
    /\ db' = [db EXCEPT !.exists = TRUE]
    /\ pc' = "to_sql"
    /\ UNCHANGED <<fmt, csv, out_dir, files, df_redfin, housing_summary, idx, requests,
                   response, crime_stats, crime_data, merged, shown, step>>

\* lines 146-148, one call each
ToSql ==
    /\ pc = "to_sql"
    /\ LET ts == Tables(housing_summary, crime_data, merged)
       IN  /\ db' = to_sql(db, ts[step + 1].name, ts[step + 1].df)
           /\ step' = step + 1
           /\ pc' = IF step + 1 = Len(ts) THEN "close" ELSE "to_sql"
    /\ UNCHANGED <<fmt, csv, out_dir, files, conn, df_redfin, housing_summary, idx,
                   requests, response, crime_stats, crime_data, merged, shown>>

\* lines 149-150
Close ==
    /\ pc = "close"
    /\ conn' = "closed"
    /\ pc' = "done"
    /\ UNCHANGED <<fmt, csv, out_dir, files, db, df_redfin, housing_summary, idx, requests,
                   response, crime_stats, crime_data, merged, shown, step>>

\* lines 152-154, one call each
Export ==
    /\ pc = "persist"
    /\ fmt # "sqlite"
    /\ LET ts == Tables(housing_summary, crime_data, merged)
       IN  /\ files' = export_data(files, ts[step + 1].df, ts[step + 1].name, fmt)
           /\ step' = step + 1
           /\ pc' = IF step + 1 = Len(ts) THEN "done" ELSE "persist"
    /\ UNCHANGED <<fmt, csv, out_dir, db, conn, df_redfin, housing_summary, idx, requests,
                   response, crime_stats, crime_data, merged, shown>>

Next ==
    \/ MakeDirs
    \/ LoadHousing
    \/ FetchState
    \/ Merge
    \/ SaveChart
    \/ ShowChart
    \/ Connect
    \/ ToSql
    \/ Close
    \/ Export

Spec == Init /\ [][Next]_vars

\* the script is one thread that runs each statement after the last
FairSpec == Spec /\ WF_vars(Next)

----------------------------------------------------------------------------
(* fetch_crime_data on its own: one call on each response of a bounded set *)

OffenseNames == <<"aggravated-assault", "robbery", "rape", "homicide">>
PeriodNames == <<"2022", "2023", "2021", "2020">>

\* all dicts with at least one and at most MaxKeys of the named keys
Mappings(names, vals) ==
    UNION {[K -> vals] : K \in SUBSET {names[i] : i \in 1..MaxKeys} \ {{}}}

RateValues == {JNum(Int2Rat(1)), JNum(Int2Rat(2)), JNum(Rat(1, 8)), JStr}
PopulationValues == {JNum(Int2Rat(100000)), JNum(Int2Rat(200000)), JNum(Int2Rat(0)), JStr}

\* what may stand at offenses.rates.<state>
StateRatesShapes == {JNull, EmptyDict, JStr} \cup {JObj(m) : m \in Mappings(OffenseNames, RateValues)}

\* what may stand at populations.population.<state>
PopulationsShapes ==
    {JNull, EmptyDict, JStr} \cup {JObj(m) : m \in Mappings(PeriodNames, PopulationValues)}

\* the "offenses" member of the body for a state, or its absence
OffensesShapes(state) ==
    {<<>>} \cup {("offenses" :> x) : x \in {JNull, JStr, EmptyDict, JObj("rates" :> JNull),
                                            JObj("rates" :> JStr),
                                            JObj("rates" :> JObj("Wyoming" :> JStr))}}
           \cup {("offenses" :> JObj("rates" :> JObj(state :> x))) : x \in StateRatesShapes}

\* the "populations" member of the body for a state, or its absence
PopulationsMemberShapes(state) ==
    {<<>>} \cup {("populations" :> x) : x \in {JNull, JStr, EmptyDict,
                                               JObj("population" :> JNull),
                                               JObj("population" :> JObj("Wyoming" :> JStr))}}
           \cup {("populations" :> JObj("population" :> JObj(state :> x))) :
                    x \in PopulationsShapes}

FetchResponses(state) ==
    {NetworkError, HttpError, BadJson, Ok(JStr), Ok(JNull)}
    \cup {Ok(JObj(o @@ p)) : o \in OffensesShapes(state), p \in PopulationsMemberShapes(state)}

FetchInit ==
    /\ pc = "call"
    /\ response \in FetchResponses(state_abbr_map[1].State)
    /\ fmt = "sqlite"
    /\ csv = File(<<>>)
    /\ out_dir = TRUE
    /\ db = NoDb
    /\ files = <<>>
    /\ conn = "none"
    /\ df_redfin = <<>>
    /\ housing_summary = <<>>
    /\ idx = 0
    /\ requests = <<>>
    /\ crime_stats = ZeroStats
    /\ crime_data = <<>>
    /\ merged = <<>>
    /\ shown = FALSE
    /\ step = 0

\* line 107: crime_stats = fetch_crime_data(state, abbr, args.apikey)
FetchCall ==
    /\ pc = "call"
    /\ LET e == state_abbr_map[1]
           r == fetch_crime_data(e.State, e.Abbr, response)
       IN  /\ crime_stats' = r.ret
           /\ pc' = IF r.exc # "none" THEN "raised" ELSE "returned"
    /\ UNCHANGED <<fmt, csv, out_dir, files, db, conn, df_redfin, housing_summary, idx,
                   requests, response, crime_data, merged, shown, step>>

FetchSpec == FetchInit /\ [][FetchCall]_vars

----------------------------------------------------------------------------
(* The housing loader on its own: one load of each file of a bounded set *)

P350K == <<"$", "3", "5", "0", "K">>
P1200K == <<"1", "2", "0", "0", ".", "5", "K">>
P500 == <<"$", "5", "0", "0">>
PNotAvailable == <<"N", "/", "A">>
PMarkersOnly == <<"$", "K">>

HousingRows ==
    { Row("Alabama", Y2022, P350K), Row("Alabama", M2023, P1200K),
      Row("Alabama", Y2021, P350K), Row("Alabama", Y2022, P500),
      Row("Alabama", M2023, PNotAvailable), Row("Alabama", Y2022, PMarkersOnly),
      Row("Alaska", M2023, P350K), Row("Alaska", Y2022, P1200K),
      Row("Alaska", Y2021, P1200K), Row("Alaska", M2023, P500),
      Row("Alaska", Y2022, PNotAvailable) }

HousingInit ==
    /\ pc = "load"
    /\ csv \in {File(r) : r \in SeqsUpTo(HousingRows, MaxRows)}
    /\ fmt = "sqlite"
    /\ out_dir = TRUE
    /\ db = NoDb
    /\ files = <<>>
    /\ conn = "none"
    /\ df_redfin = <<>>
    /\ housing_summary = <<>>
    /\ idx = 0
    /\ requests = <<>>
    /\ response = NoResponse
    /\ crime_stats = ZeroStats
    /\ crime_data = <<>>
    /\ merged = <<>>
    /\ shown = FALSE
    /\ step = 0

HousingSpec == HousingInit /\ [][LoadHousing]_vars

----------------------------------------------------------------------------
(* The merger and ranker on its own: one merge of each pair of tables of a
   bounded set, as they stand when the fetch loop has ended *)

PriceSamples == {Int2Rat(250000), Int2Rat(800000), Rat(801001, 2)}

StatsSamples ==
    { ZeroStats,
      [Population |-> 100000, TotalViolentCrimes |-> 200, CrimeRate |-> Int2Rat(200)],
      [Population |-> 150000, TotalViolentCrimes |-> 600, CrimeRate |-> Int2Rat(400)] }

RankInit ==
    /\ pc = "merge"
    /\ \E n \in 0..NumStates : \E p \in [1..n -> PriceSamples] :
          housing_summary = [k \in 1..n |-> [State |-> StateNames[k], AvgMedianPrice |-> p[k]]]
    /\ \E c \in [1..NumStates -> StatsSamples] :
          /\ crime_data = [k \in 1..NumStates |->
                              [State |-> StateNames[k], Population |-> c[k].Population,
                               TotalViolentCrimes |-> c[k].TotalViolentCrimes,
                               CrimeRate |-> c[k].CrimeRate]]
          /\ crime_stats = c[NumStates]
    /\ idx = NumStates
    /\ requests = [k \in 1..NumStates |-> StateAbbrs[k]]
    /\ response = NoResponse
    /\ fmt = "sqlite"
    /\ csv = File(<<>>)
    /\ out_dir = TRUE
    /\ db = NoDb
    /\ files = <<>>
    /\ conn = "none"
    /\ df_redfin = <<>>
    /\ merged = <<>>
    /\ shown = FALSE
    /\ step = 0

RankSpec == RankInit /\ [][Merge]_vars

----------------------------------------------------------------------------
(* What the claims say of a response, read off the body without the script's code *)

\* the value at a path of member names, null when a member on the way is missing
RECURSIVE AtPath(_, _)
AtPath(j, path) ==
    IF path = <<>> THEN j
    ELSE IF j.t = "obj" /\ Head(path) \in DOMAIN j.m THEN AtPath(j.m[Head(path)], Tail(path))
    ELSE JNull

RatesFor(resp, state) == AtPath(resp.data, <<"offenses", "rates", state>>)
PopulationsFor(resp, state) == AtPath(resp.data, <<"populations", "population", state>>)

AbsentOrEmpty(j) == j.t = "null" \/ (j.t = "obj" /\ DOMAIN j.m = {})
NonEmptyMapping(j) == j.t = "obj" /\ DOMAIN j.m # {}
NoValueIsNumber(j) == NonEmptyMapping(j) /\ \A k \in DOMAIN j.m : j.m[k].t # "num"
SomeValueNotNumber(j) == NonEmptyMapping(j) /\ \E k \in DOMAIN j.m : j.m[k].t # "num"
AllValuesNumbers(j) == NonEmptyMapping(j) /\ \A k \in DOMAIN j.m : j.m[k].t = "num"

\* the sum of the numeric values of a mapping
RECURSIVE NumericSum(_, _)
NumericSum(j, keys) ==
    IF keys = {} THEN Int2Rat(0)
    ELSE LET k == CHOOSE x \in keys : TRUE
         IN  RatAdd(IF j.m[k].t = "num" THEN j.m[k].v ELSE Int2Rat(0),
                    NumericSum(j, keys \ {k}))

MeanOfValues(j) == RatDiv(NumericSum(j, DOMAIN j.m), Int2Rat(Cardinality(DOMAIN j.m)))

\* populations that the arithmetic of lines 35-37 accepts
UsablePopulations(j) == AllValuesNumbers(j) /\ MeanOfValues(j).n # 0

FetchedState == state_abbr_map[1].State
FetchEnded == pc \in {"returned", "raised"}

----------------------------------------------------------------------------
(* C2 *)

\* C2 as claimed: whenever the rates or the populations of the state are absent or
\* empty, or a mapping of them holds no number, the call returns the three zeros
\* and raises nothing.
C2_ZeroOnMissingOrMalformed ==
    (FetchEnded /\ response.kind = "ok"
       /\ (\/ AbsentOrEmpty(RatesFor(response, FetchedState))
           \/ AbsentOrEmpty(PopulationsFor(response, FetchedState))
           \/ NoValueIsNumber(RatesFor(response, FetchedState))
           \/ NoValueIsNumber(PopulationsFor(response, FetchedState))))
    => (pc = "returned" /\ crime_stats = ZeroStats)

\* C2 amended: the call never raises; it returns the three zeros whenever the rates
\* or the populations of the state are absent or empty or the populations mapping
\* holds a string or a null; a rates mapping whose values are all strings or nulls
\* is summed as zero, so over populations that are all numbers of non-zero mean
\* Population is the rounded mean population while TotalViolentCrimes and
\* CrimeRate are zero.
C2_ZeroOnMissingNotOnNonNumericRates ==
    FetchEnded =>
      /\ pc = "returned"
      /\ (response.kind = "ok"
            /\ (\/ AbsentOrEmpty(RatesFor(response, FetchedState))
                \/ AbsentOrEmpty(PopulationsFor(response, FetchedState))
                \/ SomeValueNotNumber(PopulationsFor(response, FetchedState))))
         => crime_stats = ZeroStats
      /\ (response.kind = "ok"
            /\ NoValueIsNumber(RatesFor(response, FetchedState))
            /\ UsablePopulations(PopulationsFor(response, FetchedState)))
         => crime_stats =
              [Population |-> RoundHalfEven(MeanOfValues(PopulationsFor(response, FetchedState))),
               TotalViolentCrimes |-> 0, CrimeRate |-> Int2Rat(0)]

\* a call has returned a non-zero Population for rates that hold no number
C2_Witness ==
    /\ pc = "returned"
    /\ response.kind = "ok"
    /\ NoValueIsNumber(RatesFor(response, FetchedState))
    /\ crime_stats.Population > 0
    /\ crime_stats.TotalViolentCrimes = 0

----------------------------------------------------------------------------
(* C8 *)

\* C8 as claimed: over non-empty rates and populations, CrimeRate is the returned
\* (rounded) TotalViolentCrimes divided by the mean population, times 100,000,
\* rounded to 2 decimals.
C8_RateFromRoundedTotal ==
    (pc = "returned" /\ response.kind = "ok"
       /\ NonEmptyMapping(RatesFor(response, FetchedState))
       /\ UsablePopulations(PopulationsFor(response, FetchedState)))
    => crime_stats.CrimeRate =
         RoundTo(RatMul(RatDiv(Int2Rat(crime_stats.TotalViolentCrimes),
                               MeanOfValues(PopulationsFor(response, FetchedState))),
                        Int2Rat(PerHundredThousand)), 2)

\* C8 amended: over non-empty rates and numeric populations of non-zero mean,
\* TotalViolentCrimes is the estimate (sum of the numeric rates times the mean
\* population over 100,000) rounded to the nearest integer, and CrimeRate is the
\* unrounded estimate divided by the mean population, times 100,000, rounded to 2
\* decimals, which in exact arithmetic is the sum of the numeric rates rounded to
\* 2 decimals.
C8_RateFromUnroundedEstimate ==
    (pc = "returned" /\ response.kind = "ok"
       /\ NonEmptyMapping(RatesFor(response, FetchedState))
       /\ UsablePopulations(PopulationsFor(response, FetchedState)))
    => LET rates == RatesFor(response, FetchedState)
           mean == MeanOfValues(PopulationsFor(response, FetchedState))
           estimate == RatDiv(RatMul(NumericSum(rates, DOMAIN rates.m), mean),
                              Int2Rat(PerHundredThousand))
       IN  /\ crime_stats.TotalViolentCrimes = RoundHalfEven(estimate)
           /\ crime_stats.CrimeRate =
                 RoundTo(RatMul(RatDiv(estimate, mean), Int2Rat(PerHundredThousand)), 2)
           /\ crime_stats.CrimeRate = RoundTo(NumericSum(rates, DOMAIN rates.m), 2)

\* a call has returned a rate that differs from the one the rounded total gives
C8_Witness ==
    /\ pc = "returned"
    /\ response.kind = "ok"
    /\ NonEmptyMapping(RatesFor(response, FetchedState))
    /\ UsablePopulations(PopulationsFor(response, FetchedState))
    /\ crime_stats.CrimeRate.n # 0
    /\ ~C8_RateFromRoundedTotal

----------------------------------------------------------------------------
(* What the claims say of the housing file, read off its rows *)

\* the period text holds the four characters of the year at some place
HasYear(period, y) ==
    \E i \in 1..Len(period) :
       /\ i + 3 <= Len(period)
       /\ period[i] = y[1] /\ period[i + 1] = y[2]
       /\ period[i + 2] = y[3] /\ period[i + 3] = y[4]

InTargetYears(period) ==
    HasYear(period, <<"2", "0", "2", "2">>) \/ HasYear(period, <<"2", "0", "2", "3">>)

\* the text without its "$" and its "K"
RECURSIVE Unmarked(_)
Unmarked(text) ==
    IF text = <<>> THEN <<>>
    ELSE (IF Head(text) \in {"$", "K"} THEN <<>> ELSE <<Head(text)>>) \o Unmarked(Tail(text))

ParsesToNumber(text) == ~to_numeric(Unmarked(text)).nan

HasKSuffix(text) == text # <<>> /\ text[Len(text)] = "K"

\* the dollar value the claim gives a price text that parses
ClaimedDollars(text) ==
    IF HasKSuffix(text) THEN RatMul(to_numeric(Unmarked(text)).v, Int2Rat(1000))
    ELSE to_numeric(Unmarked(text)).v

\* the rows of the file the claims call retained
Retained(rows) ==
    {i \in 1..Len(rows) : InTargetYears(rows[i].Month) /\ ParsesToNumber(rows[i].Price)}

RetainedOf(rows, region) == {i \in Retained(rows) : rows[i].Region = region}

RECURSIVE SumOver(_, _)
SumOver(f, S) ==
    IF S = {} THEN Int2Rat(0)
    ELSE LET x == CHOOSE y \in S : TRUE IN RatAdd(f[x], SumOver(f, S \ {x}))

Loaded == pc = "fetch"

----------------------------------------------------------------------------
(* C5 *)

\* C5: the rows of the cleaned frame are exactly the retained rows of the file, and
\* the price of each is its dollar value: the number times 1000 under a "K" suffix,
\* the number itself without one; a text that is no number is in no row.
C5_PriceNormalization ==
    Loaded =>
      /\ {df_redfin[k].i : k \in 1..Len(df_redfin)} = Retained(csv.rows)
      /\ \A k \in 1..Len(df_redfin) :
            df_redfin[k].Price = ClaimedDollars(csv.rows[df_redfin[k].i].Price)

----------------------------------------------------------------------------
(* C6 *)

\* C6: HousingSummary has exactly one row for each region with a retained row and
\* none for any other, and the row's AvgMedianPrice times the number of the
\* region's retained rows is the sum of their prices; rows outside 2022 and 2023
\* count in no mean.
C6_OneMeanRowPerRegion ==
    Loaded =>
      LET rows == csv.rows
          price == [i \in 1..Len(rows) |-> CleanPrice(rows[i].Price).v]
          regions == {rows[i].Region : i \in 1..Len(rows)}
                     \cup {housing_summary[k].State : k \in 1..Len(housing_summary)}
      IN  \A g \in regions :
            LET kept == RetainedOf(rows, g)
                at == {k \in 1..Len(housing_summary) : housing_summary[k].State = g}
            IN  /\ Cardinality(at) = IF kept = {} THEN 0 ELSE 1
                /\ \A k \in at :
                      RatMul(housing_summary[k].AvgMedianPrice, Int2Rat(Cardinality(kept)))
                        = SumOver(price, kept)

\* a file with a region of two retained rows of different prices and a row of
\* another year has been loaded
C6_Witness ==
    /\ Loaded
    /\ \E i, j, x \in 1..Len(csv.rows) :
          /\ i # j
          /\ csv.rows[i].Region = csv.rows[j].Region
          /\ {i, j} \subseteq Retained(csv.rows)
          /\ CleanPrice(csv.rows[i].Price) # CleanPrice(csv.rows[j].Price)
          /\ ~InTargetYears(csv.rows[x].Month)
          /\ ParsesToNumber(csv.rows[x].Price)
    /\ Len(housing_summary) = 1

----------------------------------------------------------------------------
(* C3 and C4 *)

Ranked == pc = "savefig"

\* the number of distinct values of a column that are greater than v
DistinctGreater(column, v) ==
    Cardinality({column[j] : j \in {x \in 1..Len(column) : RatLess(v, column[x])}})

\* C3: both ranks are dense descending ranks: one more than the number of distinct
\* greater values of the column, so that the highest value has rank 1 and the ranks
\* in use are 1..d for d distinct values.
C3_DenseRanks ==
    Ranked =>
      LET rates == [i \in 1..Len(merged) |-> merged[i].CrimeRate]
          prices == [i \in 1..Len(merged) |-> merged[i].AvgMedianPrice]
      IN  \A i \in 1..Len(merged) :
            /\ merged[i].CrimeRank = 1 + DistinctGreater(rates, rates[i])
            /\ merged[i].PriceRank = 1 + DistinctGreater(prices, prices[i])

\* C4: over the merged rows a greater price has a smaller PriceRank and equal prices
\* have equal PriceRanks, and likewise CrimeRate and CrimeRank.
C4_RankMonotone ==
    Ranked =>
      \A a, b \in 1..Len(merged) :
        /\ RatLess(merged[b].AvgMedianPrice, merged[a].AvgMedianPrice)
             => merged[a].PriceRank < merged[b].PriceRank
        /\ merged[a].AvgMedianPrice = merged[b].AvgMedianPrice
             => merged[a].PriceRank = merged[b].PriceRank
        /\ RatLess(merged[b].CrimeRate, merged[a].CrimeRate)
             => merged[a].CrimeRank < merged[b].CrimeRank
        /\ merged[a].CrimeRate = merged[b].CrimeRate
             => merged[a].CrimeRank = merged[b].CrimeRank

\* three merged rows have been ranked, two of them tied above the third in crime
\* rate and all three of different prices
C4_Witness ==
    /\ Ranked
    /\ Len(merged) = 3
    /\ merged[1].CrimeRate = merged[2].CrimeRate
    /\ RatLess(merged[3].CrimeRate, merged[1].CrimeRate)
    /\ merged[1].CrimeRank = merged[2].CrimeRank
    /\ merged[1].CrimeRank < merged[3].CrimeRank
    /\ RatLess(merged[1].AvgMedianPrice, merged[2].AvgMedianPrice)
    /\ RatLess(merged[2].AvgMedianPrice, merged[3].AvgMedianPrice)

----------------------------------------------------------------------------
(* C1 *)

FetchEndedStages == {"merge", "savefig", "show", "persist", "to_sql", "close", "done"}

\* the requests issued so far are those of the leading states of the map, in its
\* order, one each, and each has put one row in the crime table
OneRequestPerState ==
    /\ Len(requests) <= NumStates
    /\ \A k \in 1..Len(requests) : requests[k] = state_abbr_map[k].Abbr
    /\ Len(crime_data) = Len(requests)
    /\ \A k \in 1..Len(crime_data) : crime_data[k].State = state_abbr_map[k].State

\* the script stops early only where the housing file could not be read
NoAbortInFetch == pc = "aborted" => (~csv.readable /\ requests = <<>>)

\* when the loop has ended every state of the map has had its request and its row
AllStatesFetched ==
    pc \in FetchEndedStages => (Len(requests) = NumStates /\ Len(crime_data) = NumStates)

\* C1: whatever the API does with each request, the loop issues one request per
\* state in map order with none repeated, no outcome ends the run, the crime table
\* gets one row per state, and a run that has begun fetching reaches persistence.
C1_FetchLoopCompletes ==
    /\ [](OneRequestPerState /\ NoAbortInFetch /\ AllStatesFetched)
    /\ (pc = "fetch") ~> (pc = "persist")

\* a run has reached persistence with the zero default in the row of its first
\* state and fetched figures in the row of its last
C1_Witness ==
    /\ pc = "persist"
    /\ Len(requests) = NumStates
    /\ crime_data[1] = [State |-> state_abbr_map[1].State, Population |-> 0,
                        TotalViolentCrimes |-> 0, CrimeRate |-> Int2Rat(0)]
    /\ crime_data[NumStates].Population > 0

----------------------------------------------------------------------------
(* C7 *)

MergedStages == {"savefig", "show", "persist", "to_sql", "close", "done"}

StatesOf(table) == {table[k].State : k \in 1..Len(table)}

\* C7: the states of the merged set are those in both HousingSummary and
\* CrimeStats, each in one merged row, so the merged set is no larger than either;
\* a state with the zero default is among them.
C7_InnerJoin ==
    pc \in MergedStages =>
      /\ StatesOf(merged) = StatesOf(housing_summary) \cap StatesOf(crime_data)
      /\ Cardinality(StatesOf(merged)) = Len(merged)
      /\ Len(merged) <= Len(housing_summary)
      /\ Len(merged) <= Len(crime_data)
      /\ \A k \in 1..Len(crime_data) :
            (crime_data[k].State \in StatesOf(housing_summary)
               /\ crime_data[k].CrimeRate = Int2Rat(0) /\ crime_data[k].Population = 0)
            => \E i \in 1..Len(merged) :
                  /\ merged[i].State = crime_data[k].State
                  /\ merged[i].CrimeRate = Int2Rat(0)
                  /\ merged[i].Population = 0

\* a merge has kept a state with the zero default and dropped a housing region that
\* is no state of the map
C7_Witness ==
    /\ pc \in MergedStages
    /\ \E i \in 1..Len(merged) : merged[i].Population = 0
    /\ \E k \in 1..Len(housing_summary) : housing_summary[k].State \notin MapStates
    /\ Len(merged) < Len(housing_summary)

----------------------------------------------------------------------------
(* C9 *)

TableNames == {"housing_data", "crime_data", "merged_data"}

FlatFiles == {f \in DOMAIN files : f # ChartFile}

\* the database is as the previous run, if any, left it
DbUntouched == conn = "none" /\ db \in {NoDb, StaleDb}

\* C9: a finished run in the sqlite format has written its three tables into the
\* one database, in place of any table of the same name, and no flat file; a
\* finished run in a flat format has written three files named by table and format
\* and has not touched the database; at no time have both been written to.
C9_OnePersistenceMode ==
    /\ (pc = "done" /\ fmt = "sqlite") =>
          /\ db.exists /\ conn = "closed"
          /\ TableNames \subseteq DOMAIN db.tables
          /\ db.tables["housing_data"] = housing_summary
          /\ db.tables["crime_data"] = crime_data
          /\ db.tables["merged_data"] = merged
          /\ \A t \in DOMAIN db.tables \ TableNames : db.tables[t] = StaleTable
          /\ FlatFiles = {}
    /\ (pc = "done" /\ fmt # "sqlite") =>
          /\ FlatFiles = {<<t, fmt>> : t \in TableNames}
          /\ files[<<"housing_data", fmt>>].content = housing_summary
          /\ files[<<"crime_data", fmt>>].content = crime_data
          /\ files[<<"merged_data", fmt>>].content = merged
          /\ DbUntouched
    /\ ~(FlatFiles # {} /\ ~DbUntouched)
    /\ (fmt = "sqlite" => FlatFiles = {})
    /\ (fmt # "sqlite" => DbUntouched)

\* a run in the sqlite format has finished over a database that held a merged_data
\* table and a table of another name
C9_Witness ==
    /\ pc = "done"
    /\ fmt = "sqlite"
    /\ "other" \in DOMAIN db.tables
    /\ db.tables["merged_data"] # StaleTable
    /\ Len(merged) > 0

----------------------------------------------------------------------------
(* C10 *)

\* the order of the stages: each step goes to the next stage, and the only way out
\* is the failed load
StageOrder ==
    { <<"start", "load">>, <<"load", "fetch">>, <<"load", "aborted">>,
      <<"fetch", "fetch">>, <<"fetch", "merge">>, <<"merge", "savefig">>,
      <<"savefig", "show">>, <<"show", "persist">>, <<"persist", "persist">>,
      <<"persist", "to_sql">>, <<"to_sql", "to_sql">>, <<"to_sql", "close">>,
      <<"close", "done">>, <<"persist", "done">> }

NextStage == <<pc, pc'>> \in StageOrder

\* what each stage leaves behind is there only when the stages before it are done
StagesInOrder ==
    /\ (pc # "start") => out_dir
    /\ (requests # <<>>) => (csv.readable /\ pc \notin {"start", "load"})
    /\ (merged # <<>>) => Len(requests) = NumStates
    /\ (ChartFile \in DOMAIN files) => pc \in {"show", "persist", "to_sql", "close", "done"}
    /\ shown => ChartFile \in DOMAIN files
    /\ (FlatFiles # {} \/ ~DbUntouched) => (ChartFile \in DOMAIN files /\ shown)

\* a housing file that cannot be read leaves no request, no file and no table
FailedLoadStopsAll ==
    ~csv.readable =>
      /\ pc \in {"start", "load", "aborted"}
      /\ requests = <<>> /\ crime_data = <<>>
      /\ files = <<>> /\ ~shown
      /\ DbUntouched

\* C10: the stages run in the one order directory, load, fetch, merge and rank,
\* chart saved, chart shown, persist; a failed load ends the run before any
\* request, chart or table; no table is persisted before the chart is saved and
\* shown.
C10_StrictStageOrder ==
    /\ [](StagesInOrder /\ FailedLoadStopsAll)
    /\ [][NextStage]_vars

\* a run has ended at the load of a file that cannot be read
C10_Witness ==
    /\ pc = "aborted"
    /\ ~csv.readable
    /\ out_dir

====
